---- MODULE Spec2Model ----
(***************************************************************************)
(* A model of the result-assembly layer of                                 *)
(* cpp/include/raft/neighbors/detail/ivf_common.cuh:                       *)
(*   calc_chunk_indices (configure + kernel), find_chunk_ix,               *)
(*   postprocess_neighbors (+ kernel) and postprocess_distances,           *)
(* of raft::unravel_index of cpp/include/raft/core/mdspan.hpp, and of the  *)
(* ball cover passes instantiated in                                       *)
(* cpp/src/spatial/knn/detail/ball_cover/registers.cu.                     *)
(*                                                                         *)
(* uint32_t values that carry data (cluster sizes, running sums, sample    *)
(* indices, identifiers) are kept at their width: a value is a pair        *)
(* <<hi, lo>> of 16-bit halves, and the arithmetic on them wraps at 2^32   *)
(* as the C++ arithmetic does.  Loop counters and array positions that     *)
(* stay small in every modelled input are plain integers.                  *)
(***************************************************************************)
EXTENDS Integers, Sequences, FiniteSets, TLC

VARIABLES
  n_queries,          \* uint32_t n_queries
  topk,               \* uint32_t topk
  n_probes,           \* uint32_t n_probes
  cluster_sizes,      \* const uint32_t* cluster_sizes      [n_clusters]
  clusters_to_probe,  \* const uint32_t* clusters_to_probe  [n_queries, n_probes]
  neighbors_in,       \* const IdxT2* neighbors_in          [n_queries, topk]
  chunk_indices,      \* uint32_t* chunk_indices: linear offset -> value written
  n_samples,          \* uint32_t* n_samples:     query -> value written
  blk,                \* calc_chunk_indices_kernel, one thread block per query: where it
                      \* is, its carry, and the offsets of clusters_to_probe it has read
  neighbors_out,      \* IdxT1* neighbors_out: linear offset -> value written
  out_writers,        \* linear offset of neighbors_out -> the threads that wrote it
                      \* in the current launch
  thr,                \* postprocess_neighbors_kernel, one record per followed thread
  launch,             \* the calls of postprocess_neighbors made so far on the batch
  metric,             \* distance::DistanceType metric
  scaling_factor,     \* float scaling_factor
  dist_in,            \* const ScoreInT* in   [n_queries, topk]
  dist_out,           \* ScoreOutT* out: linear offset -> value written
  dist_status,        \* postprocess_distances: "ready", "returned" or "failed"
  lanes,              \* calc_chunk_indices_kernel, thread by thread: the threads of one
                      \* block, each with its position and its local variables
  shm,                \* __shared__ block_scan::TempStorage shm, one cell per thread
  writers,            \* linear offset of chunk_indices -> the threads that wrote it
  shape,              \* unravel_index: extents<IndexType, Exts...> shape
  idx,                \* unravel_index: Idx idx
  coord,              \* unravel_index: the tuple it returns
  unravel_status,     \* unravel_index: "idle", "ready" or "returned"
  rbc_index,          \* ball cover: the index (points, landmarks, their members and radii)
  rbc_query,          \* ball cover: the query point, k, the probe list and the weight
  knn,                \* ball cover: the top-k state of the two-pass scan
  eps_out             \* ball cover: what the radius scan emitted

vars == <<n_queries, topk, n_probes, cluster_sizes, clusters_to_probe, neighbors_in,
          chunk_indices, n_samples, blk, neighbors_out, out_writers, thr, launch,
          metric, scaling_factor, dist_in, dist_out, dist_status,
          lanes, shm, writers, shape, idx, coord, unravel_status,
          rbc_index, rbc_query, knn, eps_out>>

ivf_inputs == <<n_queries, topk, n_probes, cluster_sizes, clusters_to_probe, neighbors_in>>
ivf_vars == <<n_queries, topk, n_probes, cluster_sizes, clusters_to_probe, neighbors_in,
              chunk_indices, n_samples, blk, neighbors_out, out_writers, thr, launch>>
dist_vars == <<metric, scaling_factor, dist_in, dist_out, dist_status>>
block_vars == <<lanes, shm, writers>>
unravel_vars == <<shape, idx, coord, unravel_status>>
rbc_vars == <<rbc_index, rbc_query, knn, eps_out>>
lib_vars == <<unravel_vars, rbc_vars>>

(***************************************************************************)
(* Bounds of the model.                                                    *)
(***************************************************************************)
MaxProbes == 3     \* short probe lists have 0..MaxProbes entries
MaxSize == 2       \* small cluster sizes are 0..MaxSize
LongProbes == 1025 \* a probe list longer than the largest thread block
MaxQueries == 2    \* batches of 1..MaxQueries queries
MaxTopk == 2       \* 1..MaxTopk results per query
MaxIdle == 1       \* followed threads beyond the last output slot
MaxLen == 2        \* postprocess_distances: 1..MaxLen queries of one score
MaxScale == 3      \* scaling factors 1..MaxScale
MaxLaunches == 2   \* postprocess_neighbors is called up to MaxLaunches times on a batch
MaxLanes == 2      \* threads 0..MaxLanes-1 of a block are followed one by one
MaxRank == 3       \* unravel_index: shapes of 1..MaxRank dimensions
MaxCoord == 6      \* ball cover: points lie at 0..MaxCoord on a line
MaxPoints == 3     \* ball cover: datasets of 1..MaxPoints points
MaxK == 2          \* ball cover: k is 1..MaxK
MaxEps == 1        \* ball cover: eps is 0..MaxEps

\* no ball cover call is made
NoBallCover ==
  /\ rbc_index = <<>>
  /\ rbc_query = <<>>
  /\ knn = [pc |-> "idle"]
  /\ eps_out = [pc |-> "idle"]

(***************************************************************************)
(* uint32_t arithmetic on <<hi, lo>> pairs.                                *)
(***************************************************************************)
Half == 256 * 256

U32(n) == <<(n \div Half) % Half, n % Half>>

Zero32 == <<0, 0>>

Max32 == <<Half - 1, Half - 1>>

\* 2^31: two of them wrap to 0
Big32 == <<Half \div 2, 0>>

\* a + b with the carry kept: the high half is unbounded
AddExact(a, b) == <<a[1] + b[1] + ((a[2] + b[2]) \div Half), (a[2] + b[2]) % Half>>

\* uint32_t a + b
Add32(a, b) == <<(a[1] + b[1] + ((a[2] + b[2]) \div Half)) % Half, (a[2] + b[2]) % Half>>

\* uint32_t a - b
Sub32(a, b) ==
  LET borrow == IF a[2] < b[2] THEN 1 ELSE 0
  IN  <<(a[1] - b[1] - borrow + 2 * Half) % Half, (a[2] - b[2] + Half) % Half>>

Lt32(a, b) == a[1] < b[1] \/ (a[1] = b[1] /\ a[2] < b[2])

Le32(a, b) == a[1] < b[1] \/ (a[1] = b[1] /\ a[2] <= b[2])

Shl1(a) == Add32(a, a)

Shr1(a) == <<a[1] \div 2, (a[2] \div 2) + (a[1] % 2) * (Half \div 2)>>

RECURSIVE Mul32(_, _)
\* uint32_t a * b
Mul32(a, b) ==
  IF b = Zero32 THEN Zero32
  ELSE Add32(IF b[2] % 2 = 1 THEN a ELSE Zero32, Shl1(Mul32(a, Shr1(b))))

\* the integer a uint32_t holds, for the values that stay below 2^31
ToInt(a) == a[1] * Half + a[2]

(***************************************************************************)
(* Program constants.                                                      *)
(***************************************************************************)
WarpSize == 32

MaxBlockDim == 1024

kPNThreads == 256

\* template <typename IdxT> kOutOfBoundsRecord = std::numeric_limits<IdxT>::max(),
\* for IdxT = uint32_t
kOutOfBoundsRecord == Max32

(***************************************************************************)
(* Inputs.  A batch is a record                                            *)
(*   nq, k, np     n_queries, topk, n_probes                               *)
(*   sizes         cluster_sizes, label -> uint32                          *)
(*   probes        clusters_to_probe, linear offset q * np + j -> label    *)
(*   nin           neighbors_in, linear offset q * k + r -> uint32         *)
(*   queries       the queries (thread blocks) the model follows           *)
(*   threads       the postprocess threads the model follows               *)
(* A batch may be larger than what the model follows of it.                *)
(***************************************************************************)
SizeVals == {U32(n) : n \in 0..MaxSize} \cup {Big32}

SampleVals == {U32(n) : n \in 0..(MaxProbes * MaxSize + 1)}
                \cup {Sub32(Big32, U32(1)), Big32, Max32}

\* one query, one result slot, every short probe list over two clusters
ShortBatches ==
  UNION {
    {[nq |-> 1, k |-> 1, np |-> np, sizes |-> sz, probes |-> pr,
      nin |-> [o \in {0} |-> s], queries |-> {0}, threads |-> 0..MaxIdle] :
       sz \in [0..1 -> SizeVals], pr \in [0..(np - 1) -> 0..1], s \in SampleVals} :
    np \in 0..MaxProbes}

\* several queries and result slots: every thread of the launch has its own slot
WideBatches ==
  {[nq |-> nq, k |-> k, np |-> 2,
    sizes |-> [c \in 0..1 |-> U32(2 - c)],
    probes |-> [o \in 0..(2 * nq - 1) |-> ((o \div 2) + (o % 2)) % 2],
    nin |-> [o \in 0..(nq * k - 1) |-> U32((o \div k) + 2 * (o % k))],
    queries |-> 0..(nq - 1), threads |-> 0..(nq * k + MaxIdle - 1)] :
     nq \in 1..MaxQueries, k \in 1..MaxTopk}

\* three probed clusters of sizes 3, 5 and 2, and four results asked for
ScenarioBatches ==
  {[nq |-> 1, k |-> 4, np |-> 3,
    sizes |-> [c \in 0..2 |-> U32(IF c = 0 THEN 3 ELSE IF c = 1 THEN 5 ELSE 2)],
    probes |-> [o \in 0..2 |-> o],
    nin |-> [o \in 0..3 |-> U32(IF o = 3 THEN 9 ELSE (o * a) % 10)],
    queries |-> {0}, threads |-> 0..(4 + MaxIdle - 1)] : a \in {3, 4}}

\* a probe list longer than the largest thread block: the scan runs over two tiles
LongBatches ==
  {[nq |-> 1, k |-> 1, np |-> LongProbes, sizes |-> sz,
    probes |-> [o \in 0..(LongProbes - 1) |-> (o \div p) % 2],
    nin |-> [o \in {0} |-> s], queries |-> {0}, threads |-> 0..MaxIdle] :
     sz \in [0..1 -> {U32(1), U32(MaxSize)}] \cup {[c \in 0..1 |-> <<64, 0>>]},
     p \in {1, 3}, s \in {U32(0), U32(LongProbes), Max32}}

\* n_queries * topk = 2^32
HugeBatches ==
  {[nq |-> Half, k |-> Half, np |-> 1, sizes |-> [c \in {0} |-> U32(1)],
    probes |-> [o \in {0} |-> 0], nin |-> [o \in {0} |-> s],
    queries |-> {0}, threads |-> 0..MaxIdle] : s \in {U32(0), U32(1)}}

Batches == ShortBatches \cup WideBatches \cup ScenarioBatches \cup LongBatches \cup HugeBatches

RECURSIVE ExactSum(_, _, _)
\* the sum of the sizes of the clusters at offsets from..(from + n - 1) of the probe
\* list, as a number (no wrap)
ExactSum(b, from, n) ==
  IF n = 0 THEN Zero32
  ELSE IF n = 1 THEN b.sizes[b.probes[from]]
  ELSE AddExact(ExactSum(b, from, n \div 2),
                ExactSum(b, from + (n \div 2), n - (n \div 2)))

\* "We assume the searched sample sizes (for a single query) fit into uint32_t"
FitsUint32(b) == \A q \in b.queries : ExactSum(b, q * b.np, b.np)[1] < Half

(***************************************************************************)
(* calc_chunk_indices::configure and calc_chunk_indices_kernel.            *)
(***************************************************************************)
RECURSIVE try_block_dim(_, _)
\* try_block_dim<BlockDim>(n_probes, n_queries): the block size of the launch
try_block_dim(BlockDim, np) ==
  IF BlockDim >= WarpSize * 2 /\ BlockDim >= np * 2
    THEN try_block_dim(BlockDim \div 2, np)
    ELSE BlockDim

configure(np) == try_block_dim(MaxBlockDim, np)

\* rounding down instead of up: the last, partial tile is never scanned
roundUp_Down(BlockDim, np) == (np \div BlockDim) * BlockDim

\* Pow2<BlockDim>::roundUp(n_probes)
roundUp(BlockDim, np) == ((np + BlockDim - 1) \div BlockDim) * BlockDim

RECURSIVE ScanRange(_, _, _)
\* the running sums of input[from], ..., input[from + n - 1], n >= 1
ScanRange(input, from, n) ==
  IF n = 1 THEN <<input[from]>>
  ELSE LET left == ScanRange(input, from, n \div 2)
           right == ScanRange(input, from + (n \div 2), n - (n \div 2))
       IN  left \o [p \in 1..Len(right) |-> Add32(left[Len(left)], right[p])]

\* no scan at all: every thread keeps its own input
InclusiveSum_NoScan(input, BlockDim) == [p \in 1..BlockDim |-> input[p - 1]]

\* cub::BlockScan<uint32_t, BlockDim>::InclusiveSum(input, output, block_aggregate):
\* thread t gets the sum of the inputs of threads 0..t, every thread the sum of all.
\* The result is the sequence of the outputs, thread t's at position t + 1.
InclusiveSum(input, BlockDim) == ScanRange(input, 0, BlockDim)

\* every block working on the rows of query 0
RowOf_Shared(q) == 0

\* lines 60-61: where the rows of block q start in clusters_to_probe and in
\* chunk_indices, the uint32_t product n_probes * blockIdx.x
RowOf(q) == ToInt(Mul32(U32(n_probes), U32(q)))

\* a scan whose thread 0 forgets the carry of the tiles before
ChunkBeforeScan_NoCarry(q, t, probe_ix, total) ==
  LET label == IF probe_ix < n_probes THEN clusters_to_probe[n_probes * q + probe_ix] ELSE 0
  IN  IF probe_ix < n_probes THEN cluster_sizes[label] ELSE Zero32

\* the value thread t of block q holds in `chunk` before the scan (lines 65-67)
ChunkBeforeScan(q, t, probe_ix, total) ==
  LET label == IF probe_ix < n_probes THEN clusters_to_probe[RowOf(q) + probe_ix] ELSE 0
      chunk == IF probe_ix < n_probes THEN cluster_sizes[label] ELSE Zero32
  IN  IF t = 0 THEN Add32(chunk, total) ELSE chunk

\* whether thread t stores its chunk after the barrier (line 70)
StoresChunk(probe_ix) == probe_ix < n_probes

\* line 65: the offsets of clusters_to_probe the threads of block q read in the tile
\* that starts at probe_ix = base
LabelsRead(q, base, BlockDim) ==
  {RowOf(q) + base + t : t \in {u \in 0..(BlockDim - 1) : base + u < n_probes}}

\* One iteration of the loop of lines 64-71 by all threads of block q: the scan is a
\* collective of the block and __syncthreads() ends the iteration.
ScanTile(q) ==
  LET BlockDim == configure(n_probes)
      base == blk[q].probe_ix
      row == RowOf(q)
  IN  /\ blk[q].pc = "scan"
      /\ base < roundUp(BlockDim, n_probes)
      /\ \E output \in {InclusiveSum([t \in 0..(BlockDim - 1) |->
                                        ChunkBeforeScan(q, t, base + t, blk[q].total)],
                                     BlockDim)},
            at \in {{row + base + t : t \in {u \in 0..(BlockDim - 1) : StoresChunk(base + u)}}} :
           /\ chunk_indices' =
                [o \in DOMAIN chunk_indices \cup at |->
                   IF o \in at THEN output[o - row - base + 1] ELSE chunk_indices[o]]
           /\ blk' = [blk EXCEPT ![q].probe_ix = base + BlockDim,
                                 ![q].total = output[BlockDim],
                                 ![q].tiles = @ + 1,
                                 ![q].read = @ \cup LabelsRead(q, base, BlockDim)]
      /\ UNCHANGED <<ivf_inputs, n_samples, neighbors_out, out_writers, thr, launch, dist_vars, block_vars, lib_vars>>

\* The loop of block q is over: thread 0 saves the total size.
SaveTotal(q) ==
  /\ blk[q].pc = "scan"
  /\ blk[q].probe_ix >= roundUp(configure(n_probes), n_probes)
  /\ n_samples' = [o \in DOMAIN n_samples \cup {q} |->
                     IF o = q THEN blk[q].total ELSE n_samples[o]]
  /\ blk' = [blk EXCEPT ![q].pc = "done"]
  /\ UNCHANGED <<ivf_inputs, chunk_indices, neighbors_out, out_writers, thr, launch, dist_vars, block_vars, lib_vars>>

BuilderDone == \A q \in DOMAIN blk : blk[q].pc = "done"

(***************************************************************************)
(* calc_chunk_indices_kernel thread by thread, for the block of query 0.   *)
(* Threads 0..MaxLanes-1 are followed one by one; the remaining threads of *)
(* the block move together, as one more lane.  A lane is a record          *)
(*   pc        "load", "scan" (inside InclusiveSum), "sync" (at            *)
(*             __syncthreads), "done"                                      *)
(*   base      probe_ix - threadIdx.x                                      *)
(*   chunk     thread -> its local variable chunk                          *)
(*   total     the local variable total (the same in all threads of a lane)*)
(*   entered, arrived, iters   how many times the lane has entered the     *)
(*             scan, arrived at the barrier, finished an iteration         *)
(* The scan keeps to the contract of cub::BlockScan: a thread that enters  *)
(* puts its input into the temporary storage, and gets its results, read   *)
(* from the storage, when all threads of the block have entered.           *)
(***************************************************************************)
Lanes == 0..MaxLanes

\* the threads of lane a in a block of BlockDim threads
ThreadsOf(a, BlockDim) == IF a < MaxLanes THEN {a} ELSE MaxLanes..(BlockDim - 1)

\* lines 64-68, up to the entry into the scan: the threads of lane a test the loop
\* condition, gather their sizes and enter InclusiveSum
ScanEnter(a) ==
  LET BlockDim == configure(n_probes)
      base == lanes[a].base
  IN  /\ lanes[a].pc = "load"
      /\ base < roundUp(BlockDim, n_probes)
      /\ shm' = [t \in 0..(BlockDim - 1) |->
                   IF t \in ThreadsOf(a, BlockDim)
                     THEN ChunkBeforeScan(0, t, base + t, lanes[a].total)
                     ELSE shm[t]]
      /\ lanes' = [lanes EXCEPT ![a].pc = "scan", ![a].entered = @ + 1]
      /\ UNCHANGED <<ivf_vars, dist_vars, writers, lib_vars>>

\* line 68, the end of the scan: all threads of the block have entered it, and the
\* threads of lane a get their running sums and the block's total
ScanLeave(a) ==
  LET BlockDim == configure(n_probes)
  IN  /\ lanes[a].pc = "scan"
      /\ \A b \in Lanes : lanes[b].entered >= lanes[a].entered
      /\ \E output \in {InclusiveSum(shm, BlockDim)} :
           lanes' = [lanes EXCEPT ![a].pc = "sync",
                                  ![a].chunk = [t \in ThreadsOf(a, BlockDim) |-> output[t + 1]],
                                  ![a].total = output[BlockDim],
                                  ![a].arrived = @ + 1]
      /\ UNCHANGED <<ivf_vars, dist_vars, shm, writers, lib_vars>>

\* a barrier nobody waits at
syncthreads_None(a) == TRUE

\* line 69, __syncthreads(): lane a is let through when every thread of the block
\* has arrived at the barrier as often as lane a
syncthreads(a) == \A b \in Lanes : lanes[b].arrived >= lanes[a].arrived

\* lines 69-70 and the loop increment: past the barrier the threads of lane a store
\* their entries and step to the next tile
SyncStore(a) ==
  LET BlockDim == configure(n_probes)
      base == lanes[a].base
  IN  /\ lanes[a].pc = "sync"
      /\ syncthreads(a)
      /\ \E at \in {{t \in ThreadsOf(a, BlockDim) : StoresChunk(base + t)}} :
           /\ chunk_indices' =
                [o \in DOMAIN chunk_indices \cup {RowOf(0) + base + t : t \in at} |->
                   IF o - RowOf(0) - base \in at
                     THEN lanes[a].chunk[o - RowOf(0) - base] ELSE chunk_indices[o]]
           /\ writers' =
                [o \in DOMAIN writers \cup {RowOf(0) + base + t : t \in at} |->
                   IF o - RowOf(0) - base \in at
                     THEN (IF o \in DOMAIN writers THEN writers[o] ELSE <<>>)
                            \o <<o - RowOf(0) - base>>
                     ELSE writers[o]]
      /\ lanes' = [lanes EXCEPT ![a].pc = "load", ![a].base = base + BlockDim,
                                 ![a].iters = @ + 1]
      /\ UNCHANGED <<ivf_inputs, n_samples, blk, neighbors_out, out_writers, thr, launch,
                     dist_vars, shm, lib_vars>>

\* lines 64 and 73: the loop is over for the threads of lane a; thread 0 saves the
\* total size
LoopExit(a) ==
  LET BlockDim == configure(n_probes)
  IN  /\ lanes[a].pc = "load"
      /\ lanes[a].base >= roundUp(BlockDim, n_probes)
      /\ n_samples' = IF 0 \in ThreadsOf(a, BlockDim)
                        THEN [o \in DOMAIN n_samples \cup {0} |->
                                IF o = 0 THEN lanes[a].total ELSE n_samples[o]]
                        ELSE n_samples
      /\ lanes' = [lanes EXCEPT ![a].pc = "done"]
      /\ UNCHANGED <<ivf_inputs, chunk_indices, blk, neighbors_out, out_writers, thr, launch,
                     dist_vars, shm, writers, lib_vars>>

\* one block of a launch of calc_chunk_indices_kernel: the block of query 0 of a
\* one-query batch that keeps the documented assumption
LoadBlock(b) ==
  /\ n_queries = b.nq
  /\ topk = b.k
  /\ n_probes = b.np
  /\ cluster_sizes = b.sizes
  /\ clusters_to_probe = b.probes
  /\ neighbors_in = b.nin
  /\ chunk_indices = <<>>
  /\ n_samples = <<>>
  /\ blk = <<>>
  /\ neighbors_out = <<>>
  /\ out_writers = <<>>
  /\ thr = <<>>
  /\ launch = 0
  /\ lanes = [a \in Lanes |->
               [pc |-> "load", base |-> 0, total |-> Zero32, entered |-> 0, arrived |-> 0,
                iters |-> 0, chunk |-> [t \in ThreadsOf(a, configure(b.np)) |-> Zero32]]]
  /\ shm = [t \in 0..(configure(b.np) - 1) |-> Zero32]
  /\ writers = <<>>

\* the batches whose block is followed thread by thread: every short probe list
\* over clusters of sizes 1 and MaxSize, and the long probe lists
BlockBatches ==
  {b \in ShortBatches : b.sizes = [c \in 0..1 |-> U32(1 + c * (MaxSize - 1))]}
    \cup LongBatches

InitBlock ==
  /\ \E b \in BlockBatches : b.nin[0] = Zero32 /\ FitsUint32(b) /\ LoadBlock(b)
  /\ metric = "L2Expanded"
  /\ scaling_factor = 1
  /\ dist_in = <<>>
  /\ dist_out = <<>>
  /\ dist_status = "idle"
  /\ shape = <<>>
  /\ idx = <<>>
  /\ coord = <<>>
  /\ unravel_status = "idle"
  /\ NoBallCover

NextBlock ==
  \/ \E a \in Lanes : ScanEnter(a)
  \/ \E a \in Lanes : ScanLeave(a)
  \/ \E a \in Lanes : SyncStore(a)
  \/ \E a \in Lanes : LoopExit(a)

SpecBlock == InitBlock /\ [][NextBlock]_vars

(***************************************************************************)
(* find_chunk_ix.                                                          *)
(***************************************************************************)
\* what a read outside an array may give
GarbageVals == {Zero32, Max32}

\* chunk_indices[i] of the row that starts at offset row; reading a cell that was
\* never written gives an arbitrary value g
ChunkAt(row, i, g) ==
  IF row + i \in DOMAIN chunk_indices THEN chunk_indices[row + i] ELSE g

\* a lower-bound search: an entry equal to the sample no longer sends it right
GoesRight_Strict(entry, sample_ix) == Lt32(entry, sample_ix)

\* line 138: the comparison that sends the search right
GoesRight(entry, sample_ix) == Le32(entry, sample_ix)

\* line 137: uint32_t i = (ix_min + ix_max) / 2
Midpoint(ix_min, ix_max) == ToInt(Shr1(Add32(U32(ix_min), U32(ix_max))))

RECURSIVE SearchLoop(_, _, _, _, _, _, _, _)
\* lines 139-143: the end of an iteration that read position i and found that the
\* search goes right, or not
SearchFrom(i, right, ix_min, ix_max, sample_ix, row, g, reads, iters, steps) ==
  LET lo == IF right THEN i + 1 ELSE ix_min
      hi == IF right THEN ix_max ELSE i
  IN  IF lo < hi
        THEN SearchLoop(lo, hi, sample_ix, row, g, Append(reads, i), iters + 1,
                        Append(steps, <<lo, hi>>))
        ELSE [ix_min |-> lo, ix_max |-> hi, reads |-> Append(reads, i), iters |-> iters + 1,
              steps |-> Append(steps, <<lo, hi>>)]

\* line 138: the iteration reads position i of the row
SearchAt(i, ix_min, ix_max, sample_ix, row, g, reads, iters, steps) ==
  SearchFrom(i, GoesRight(ChunkAt(row, i, g), sample_ix),
             ix_min, ix_max, sample_ix, row, g, reads, iters, steps)

\* the do-while loop of lines 136-143; reads are the positions of the row it read,
\* steps the pairs <<ix_min, ix_max>> at the end of each iteration
SearchLoop(ix_min, ix_max, sample_ix, row, g, reads, iters, steps) ==
  SearchAt(Midpoint(ix_min, ix_max), ix_min, ix_max, sample_ix, row, g, reads, iters, steps)

\* the sample index left as it came in
OffsetInChunk_Keep(ix, sample_ix, row, g) == sample_ix

\* line 144: the offset inside the chunk
OffsetInChunk(ix, sample_ix, row, g) ==
  IF ix > 0 THEN Sub32(sample_ix, ChunkAt(row, ix - 1, g)) ELSE sample_ix

\* a search that starts with ix_max = n_probes - 1
find_chunk_ix_Short(sample_ix, np, row, g) ==
  LET l == SearchLoop(0, IF np > 0 THEN np - 1 ELSE 0, sample_ix, row, g, <<>>, 0, <<>>)
  IN  [ix |-> l.ix_min,
       sample_ix |-> OffsetInChunk(l.ix_min, sample_ix, row, g),
       reads |-> IF l.ix_min > 0 THEN Append(l.reads, l.ix_min - 1) ELSE l.reads,
       iters |-> l.iters,
       ix_max |-> l.ix_max,
       steps |-> l.steps]

\* find_chunk_ix(sample_ix, n_probes, chunk_indices + row): the chunk index it returns,
\* sample_ix as it leaves it, the positions of the row it read, and how the loop went
find_chunk_ix(sample_ix, np, row, g) ==
  LET l == SearchLoop(0, np, sample_ix, row, g, <<>>, 0, <<>>)
  IN  [ix |-> l.ix_min,
       sample_ix |-> OffsetInChunk(l.ix_min, sample_ix, row, g),
       reads |-> IF l.ix_min > 0 THEN Append(l.reads, l.ix_min - 1) ELSE l.reads,
       iters |-> l.iters,
       ix_max |-> l.ix_max,
       steps |-> l.steps]

(***************************************************************************)
(* postprocess_neighbors and postprocess_neighbors_kernel.                 *)
(***************************************************************************)
\* the uint32_t product n_queries * topk of line 193
SlotCount(nq, k) == Mul32(U32(nq), U32(k))

\* raft::div_rounding_up_unsafe<size_t>(a, kPNThreads) for a uint32_t a
div_rounding_up(a) == a[1] * (Half \div kPNThreads) + ((a[2] + kPNThreads - 1) \div kPNThreads)

\* line 193: the number of blocks of kPNThreads threads of the launch
pn_blocks(nq, k) == div_rounding_up(SlotCount(nq, k))

\* whether thread i is a thread of the launch
Launched(i, nq, k) == i \div kPNThreads < pn_blocks(nq, k)

\* db_indices[label][j]: member j of cluster `label` has the identifier
\* (label + 1) * 2^20 + j
db_indices(label, j) == Add32(<<(label + 1) * 16, 0>>, j)

\* line 161: the threads past the last query return at once
ReturnsEarly(query_ix) == query_ix >= n_queries

\* the last chunk taken for the not-found value
IsValid_Strict(chunk_ix) == chunk_ix + 1 < n_probes

\* line 169
IsValid(chunk_ix) == chunk_ix < n_probes

\* lines 159-171 for thread i (its linear index): what it finds and what it stores.
\* g is what a read outside an array gives.
KernelBody(i, g) ==
  LET query_ix == i \div topk
      k == i % topk
      slot == ToInt(Mul32(U32(query_ix), U32(topk))) + k
      row == ToInt(Mul32(U32(query_ix), U32(n_probes)))
      data_ix == neighbors_in[slot]
      f == find_chunk_ix(data_ix, n_probes, row, g)
      valid == IsValid(f.ix)
      label == clusters_to_probe[row + f.ix]
      inside == Lt32(f.sample_ix, cluster_sizes[label])
  IN  [slot |-> slot, found |-> f, valid |-> valid,
       outside |-> (\E p \in 1..Len(f.reads) : f.reads[p] >= n_probes)
                     \/ (valid /\ ~inside),
       value |-> IF ~valid THEN kOutOfBoundsRecord
                 ELSE IF inside THEN db_indices(label, f.sample_ix) ELSE g]

NotFound == [ix |-> 0, sample_ix |-> Zero32, reads |-> <<>>, iters |-> 0, ix_max |-> 0,
             steps |-> <<>>]

\* find_chunk_ix working on the cell of neighbors_in itself: the offset inside the
\* chunk lands in the input
NeighborsInAfter_InPlace(slot, f) == [neighbors_in EXCEPT ![slot] = f.sample_ix]

\* line 167: data_ix is a copy of neighbors_in[k], and find_chunk_ix(data_ix, ...)
\* updates the copy; neighbors_in after the thread
NeighborsInAfter(slot, f) == neighbors_in

\* One thread of postprocess_neighbors_kernel runs.  A thread that reads outside an
\* array gets an arbitrary value or ends the kernel with a fault.
PostprocessThread(i) ==
  /\ BuilderDone
  /\ thr[i].pc = "ready"
  /\ \A j \in DOMAIN thr : thr[j].pc # "fault"
  /\ IF ReturnsEarly(i \div topk)
       THEN /\ thr' = [thr EXCEPT ![i].pc = "returned"]
            /\ UNCHANGED <<neighbors_in, neighbors_out, out_writers>>
       ELSE \E g \in GarbageVals, fault \in BOOLEAN :
              LET b == KernelBody(i, g)
              IN  /\ fault => b.outside
                  /\ neighbors_in' = IF fault THEN neighbors_in ELSE NeighborsInAfter(b.slot, b.found)
                  /\ thr' = [thr EXCEPT ![i] = [pc |-> IF fault THEN "fault" ELSE "done",
                                                found |-> b.found]]
                  /\ neighbors_out' =
                       IF fault THEN neighbors_out
                       ELSE [o \in DOMAIN neighbors_out \cup {b.slot} |->
                               IF o = b.slot THEN b.value ELSE neighbors_out[o]]
                  /\ out_writers' =
                       IF fault THEN out_writers
                       ELSE [o \in DOMAIN out_writers \cup {b.slot} |->
                               IF o = b.slot
                                 THEN (IF o \in DOMAIN out_writers
                                         THEN Append(out_writers[o], i) ELSE <<i>>)
                                 ELSE out_writers[o]]
  /\ UNCHANGED <<n_queries, topk, n_probes, cluster_sizes, clusters_to_probe,
                 chunk_indices, n_samples, blk, launch, dist_vars, block_vars, lib_vars>>

\* postprocess_neighbors is called again on the same buffers, after the launch before
\* it is over: the same grid of threads starts anew.
Relaunch ==
  /\ BuilderDone
  /\ DOMAIN thr # {}
  /\ \A i \in DOMAIN thr : thr[i].pc \in {"done", "returned"}
  /\ launch < MaxLaunches
  /\ launch' = launch + 1
  /\ thr' = [i \in DOMAIN thr |-> [pc |-> "ready", found |-> NotFound]]
  /\ out_writers' = <<>>
  /\ UNCHANGED <<ivf_inputs, chunk_indices, n_samples, blk, neighbors_out, dist_vars, block_vars, lib_vars>>

(***************************************************************************)
(* The batch pipeline: calc_chunk_indices, then postprocess_neighbors on   *)
(* the same stream.                                                        *)
(***************************************************************************)
NoCall ==
  /\ metric = "L2Expanded"
  /\ scaling_factor = 1
  /\ dist_in = <<>>
  /\ dist_out = <<>>
  /\ dist_status = "idle"

NoBlock ==
  /\ lanes = <<>>
  /\ shm = <<>>
  /\ writers = <<>>

NoUnravel ==
  /\ shape = <<>>
  /\ idx = <<>>
  /\ coord = <<>>
  /\ unravel_status = "idle"
  /\ NoBallCover

Load(b) ==
  /\ n_queries = b.nq
  /\ topk = b.k
  /\ n_probes = b.np
  /\ cluster_sizes = b.sizes
  /\ clusters_to_probe = b.probes
  /\ neighbors_in = b.nin
  /\ chunk_indices = <<>>
  /\ n_samples = <<>>
  /\ blk = [q \in b.queries |-> [pc |-> "scan", probe_ix |-> 0, total |-> Zero32, tiles |-> 0, read |-> {}]]
  /\ neighbors_out = <<>>
  /\ out_writers = <<>>
  /\ thr = [i \in {j \in b.threads : Launched(j, b.nq, b.k)} |->
              [pc |-> "ready", found |-> NotFound]]
  /\ launch = 1
  /\ NoCall
  /\ NoBlock
  /\ NoUnravel

\* every batch whose sizes keep the documented assumption
Init == \E b \in Batches : FitsUint32(b) /\ Load(b)

\* every batch, also those whose probed sizes sum past 2^32 - 1
InitAnySizes == \E b \in Batches : Load(b)

Next ==
  \/ \E q \in DOMAIN blk : ScanTile(q)
  \/ \E q \in DOMAIN blk : SaveTotal(q)
  \/ \E i \in DOMAIN thr : PostprocessThread(i)

Spec == Init /\ [][Next]_vars

SpecAnySizes == InitAnySizes /\ [][Next]_vars

\* the batches postprocess_neighbors is called on more than once
InitRelaunch ==
  \E b \in {c \in ShortBatches : c.sizes[0] = U32(1)} \cup WideBatches \cup ScenarioBatches : Load(b)

NextRelaunch ==
  \/ Next
  \/ Relaunch

SpecRelaunch == InitRelaunch /\ [][NextRelaunch]_vars

(***************************************************************************)
(* Properties of the Chunk Index Builder.                                  *)
(***************************************************************************)
\* the size of the cluster that entry j of query q's probe list names
ProbedSize(q, j) == cluster_sizes[clusters_to_probe[n_probes * q + j]]

\* the sum of the sizes of the first n probed clusters of query q, as a number
ProbedTotal(q, n) ==
  ExactSum([sizes |-> cluster_sizes, probes |-> clusters_to_probe], n_probes * q, n)

Written(q, j) == n_probes * q + j \in DOMAIN chunk_indices

Entry(q, j) == chunk_indices[n_probes * q + j]

\* C1: when the kernel has finished for query q, every entry i of its row of
\* chunk_indices is the inclusive running sum of the sizes of the probed clusters
\* 0..i: entry 0 is the first size, every later entry is the entry before it plus
\* the size of its own cluster (as numbers, nothing lost to a carry), and the last
\* entry is the sum of all sizes; whatever the block size and the number of tiles.
C1_RunningSum ==
  \A q \in DOMAIN blk :
    blk[q].pc = "done" =>
      /\ \A i \in 0..(n_probes - 1) :
           /\ Written(q, i)
           /\ Entry(q, i) = AddExact(IF i = 0 THEN Zero32 ELSE Entry(q, i - 1), ProbedSize(q, i))
      /\ n_probes > 0 => Entry(q, n_probes - 1) = ProbedTotal(q, n_probes)

\* a finished scan of a probe list longer than the thread block: several tiles
C1_Witness ==
  \E q \in DOMAIN blk :
    /\ blk[q].pc = "done"
    /\ n_probes > configure(n_probes)
    /\ blk[q].tiles >= 2
    /\ Lt32(Entry(q, configure(n_probes) - 1), Entry(q, n_probes - 1))

\* C2: when the kernel has finished for query q, n_samples[q] and the last entry
\* of the query's row both are the sum of the sizes of the probed clusters; with
\* an empty probe list n_samples[q] is 0 and no entry of chunk_indices is written.
C2_SumConsistency ==
  \A q \in DOMAIN blk :
    blk[q].pc = "done" =>
      /\ q \in DOMAIN n_samples
      /\ n_samples[q] = ProbedTotal(q, n_probes)
      /\ n_probes > 0 => Written(q, n_probes - 1)
                          /\ Entry(q, n_probes - 1) = ProbedTotal(q, n_probes)
      /\ n_probes = 0 => n_samples[q] = Zero32 /\ DOMAIN chunk_indices = {}

\* a finished query with an empty probe list
C2_Witness ==
  \E q \in DOMAIN blk :
    blk[q].pc = "done" /\ n_probes = 0 /\ n_samples[q] = Zero32 /\ chunk_indices = <<>>

Monotone(q) ==
  \A i \in 0..(n_probes - 2) : Le32(Entry(q, i), Entry(q, i + 1))

\* C3 as claimed: for every table of 32-bit sizes and every probe list the row of
\* a finished query is monotone non-decreasing.
C3_MonotoneAnySizes ==
  \A q \in DOMAIN blk : blk[q].pc = "done" => Monotone(q)

\* C3 as amended: the row of a finished query is monotone non-decreasing when
\* the sizes of the query's probed clusters sum to at most 2^32 - 1.
C3_MonotoneWhenFits ==
  \A q \in DOMAIN blk :
    (blk[q].pc = "done" /\ ProbedTotal(q, n_probes)[1] < Half) => Monotone(q)

\* a finished query whose row holds an empty cluster's repeated entry and a rise
C3_Witness ==
  \E q \in DOMAIN blk :
    /\ blk[q].pc = "done"
    /\ ProbedTotal(q, n_probes)[1] < Half
    /\ n_probes >= 3
    /\ \E i \in 0..(n_probes - 2) : Entry(q, i) = Entry(q, i + 1)
    /\ \E i \in 0..(n_probes - 2) : Lt32(Entry(q, i), Entry(q, i + 1))

\* the offsets of query q's row in chunk_indices and in clusters_to_probe
RowOffsets(q) == (q * n_probes)..(q * n_probes + n_probes - 1)

\* C14: every step of the thread block of query q writes chunk_indices only inside
\* the row of q (offsets q * n_probes .. q * n_probes + n_probes - 1) and n_samples
\* only at q, has read clusters_to_probe only inside the row of q, and leaves every
\* other block, cluster_sizes and clusters_to_probe as they were, whatever the
\* order in which the blocks run.
C14_NoCrossQueryWrites ==
  [][\A q \in DOMAIN blk :
       blk'[q] # blk[q] =>
         /\ DOMAIN chunk_indices \subseteq DOMAIN chunk_indices'
         /\ \A o \in DOMAIN chunk_indices' :
              (o \notin DOMAIN chunk_indices \/ chunk_indices'[o] # chunk_indices[o])
                 => o \in RowOffsets(q)
         /\ DOMAIN n_samples \subseteq DOMAIN n_samples'
         /\ \A o \in DOMAIN n_samples' :
              (o \notin DOMAIN n_samples \/ n_samples'[o] # n_samples[o]) => o = q
         /\ blk'[q].read \subseteq RowOffsets(q)
         /\ \A p \in DOMAIN blk \ {q} : blk'[p] = blk[p]
         /\ cluster_sizes' = cluster_sizes
         /\ clusters_to_probe' = clusters_to_probe]_vars

\* two blocks interleaved: block 1 has finished, block 0 has written its row and
\* not yet its sample count
C14_Witness ==
  /\ DOMAIN blk = {0, 1}
  /\ blk[1].pc = "done" /\ blk[1].read = RowOffsets(1)
  /\ blk[0].pc = "scan" /\ blk[0].tiles = 1 /\ blk[0].read = RowOffsets(0)
  /\ DOMAIN chunk_indices = RowOffsets(0) \cup RowOffsets(1)
  /\ DOMAIN n_samples = {1}

\* the iterations of the loop: n_probes rounded up to a multiple of the block
\* size, divided by the block size
Tiles == roundUp(configure(n_probes), n_probes) \div configure(n_probes)

\* the number of probes in the first n tiles
ProbesInTiles(n) ==
  IF n * configure(n_probes) < n_probes THEN n * configure(n_probes) ELSE n_probes

\* C17: in a block of calc_chunk_indices_kernel (a) every thread that has left the
\* loop went through the same number of iterations, n_probes rounded up to a
\* multiple of BlockDim and divided by BlockDim, and entered the block scan and
\* arrived at the barrier as many times; (b) when a thread has entered the scan of
\* a tile (and so put its input into the shared scan storage), every thread of the
\* block has got its results of the scan of the tile before and arrived at the
\* barrier after it; (c) the total a thread holds after the scan of tile t is the
\* sum of the sizes of all probes of tiles 0..t; (d) no entry of chunk_indices
\* is written twice, each is written by the thread threadIdx = probe_ix mod
\* BlockDim, and when all threads are done every entry of the row is written.
C17_TilesInStep ==
  /\ \A a \in DOMAIN lanes :
       /\ lanes[a].pc = "done" =>
            /\ lanes[a].iters = Tiles
            /\ lanes[a].entered = Tiles
            /\ lanes[a].arrived = Tiles
       /\ \A b \in DOMAIN lanes : lanes[a].entered <= lanes[b].arrived + 1
       /\ lanes[a].total = ProbedTotal(0, ProbesInTiles(lanes[a].arrived))
  /\ \A o \in DOMAIN writers :
       /\ Len(writers[o]) = 1
       /\ writers[o][1] = o % configure(n_probes)
  /\ (\A a \in DOMAIN lanes : lanes[a].pc = "done") =>
       /\ DOMAIN writers = RowOffsets(0)
       /\ DOMAIN chunk_indices = RowOffsets(0)
       /\ \A j \in RowOffsets(0) : chunk_indices[j] = ProbedTotal(0, j + 1)

\* thread 0 has entered the scan of the second tile, carrying the total of the
\* first, while the threads that move together are past the first scan and have
\* not yet stored their entries of the first tile
C17_Witness ==
  /\ DOMAIN lanes # {}
  /\ Tiles = 2
  /\ lanes[0].entered = 2 /\ lanes[0].pc = "scan"
  /\ lanes[0].total # Zero32
  /\ lanes[MaxLanes].pc = "sync" /\ lanes[MaxLanes].iters = 0
  /\ MaxLanes \notin DOMAIN writers

(***************************************************************************)
(* Properties of the Chunk Locator and of the Result Resolver.  A thread   *)
(* whose pc is "done" ran find_chunk_ix on the sample index of its slot;   *)
(* thr[i].found is what the call returned.                                 *)
(***************************************************************************)
Ran == {i \in DOMAIN thr : thr[i].pc = "done"}

QueryOf(i) == i \div topk

\* the sample index thread i was given
SampleOf(i) == neighbors_in[i]

\* C4: on a monotone non-decreasing row of P >= 1 entries, for any sample index s
\* the chunk index c that find_chunk_ix returns is the smallest with table[c] > s:
\* every entry before c is <= s and entry c, when c < P, is > s (c = P when no
\* entry is > s); and sample_ix comes back as s - table[c - 1] when c > 0 (so that
\* table[c - 1] + sample_ix = s as numbers) and as s when c = 0.
C4_UpperBound ==
  \A i \in Ran :
    LET q == QueryOf(i)
        c == thr[i].found.ix
        s == SampleOf(i)
    IN  (n_probes >= 1 /\ Monotone(q)) =>
          /\ c \in 0..n_probes
          /\ \A j \in 0..(c - 1) : Le32(Entry(q, j), s)
          /\ c < n_probes => Lt32(s, Entry(q, c))
          /\ c > 0 => AddExact(Entry(q, c - 1), thr[i].found.sample_ix) = s
          /\ c = 0 => thr[i].found.sample_ix = s

\* a search that ends inside the row, past an entry equal to the sample index
C4_Witness ==
  \E i \in Ran :
    LET q == QueryOf(i)
        c == thr[i].found.ix
    IN  /\ n_probes >= 3 /\ Monotone(q)
        /\ c > 0 /\ c < n_probes
        /\ Entry(q, c - 1) = SampleOf(i)
        /\ thr[i].found.sample_ix = Zero32
        /\ SampleOf(i) # Zero32

\* C5: for a sample index s below the query's total sample count, find_chunk_ix on
\* the row the builder wrote returns (c, local) with c < P, local below the size of
\* the c-th probed cluster, and the sizes of the probed clusters 0..c-1 plus local
\* equal to s.
C5_RoundTrip ==
  \A i \in Ran :
    LET q == QueryOf(i)
        c == thr[i].found.ix
        local == thr[i].found.sample_ix
    IN  Lt32(SampleOf(i), n_samples[q]) =>
          /\ c < n_probes
          /\ Lt32(local, ProbedSize(q, c))
          /\ AddExact(ProbedTotal(q, c), local) = SampleOf(i)

\* a sample found behind an empty cluster of the probe list, at a non-zero offset
C5_Witness ==
  \E i \in Ran :
    LET q == QueryOf(i)
        c == thr[i].found.ix
    IN  /\ Lt32(SampleOf(i), n_samples[q])
        /\ c < n_probes
        /\ \E j \in 0..(c - 1) : ProbedSize(q, j) = Zero32
        /\ \E j \in 0..(c - 1) : ProbedSize(q, j) # Zero32
        /\ thr[i].found.sample_ix # Zero32

\* C6: on a row of P >= 1 entries, for every sample index s >= table[P - 1] (the
\* query's total sample count) find_chunk_ix returns P; the thread is not ended
\* by a fault and stores a result.
C6_NotFound ==
  \A i \in DOMAIN thr :
    n_probes >= 1 =>
      /\ thr[i].pc # "fault"
      /\ (thr[i].pc = "done" /\ Le32(n_samples[QueryOf(i)], SampleOf(i))) =>
           /\ thr[i].found.ix = n_probes
           /\ i \in DOMAIN neighbors_out

\* a sample index equal to the total sample count of a non-empty probed set
C6_Witness ==
  \E i \in Ran :
    /\ n_probes >= 2
    /\ SampleOf(i) = n_samples[QueryOf(i)]
    /\ SampleOf(i) # Zero32
    /\ thr[i].found.ix = n_probes

RECURSIVE Log2(_)
\* floor(log2(n)) for n >= 1
Log2(n) == IF n <= 1 THEN 0 ELSE 1 + Log2(n \div 2)

\* <<ix_min, ix_max>> before the first iteration and at the end of each iteration
\* of the call of thread i
StepsOf(i) == <<<<0, n_probes>>>> \o thr[i].found.steps

\* C15: every call of find_chunk_ix ends, whatever n_probes, the row and the sample
\* index: every iteration of its loop makes ix_max - ix_min strictly smaller, the
\* loop is left with ix_min = ix_max <= n_probes, and, for n_probes >= 1, after at
\* most floor(log2(n_probes)) + 1 iterations.
C15_Terminates ==
  \A i \in Ran :
    LET f == thr[i].found
        st == StepsOf(i)
    IN  /\ f.iters = Len(f.steps)
        /\ \A j \in 1..f.iters : st[j + 1][2] - st[j + 1][1] < st[j][2] - st[j][1]
        /\ f.ix = f.ix_max
        /\ f.ix <= n_probes
        /\ n_probes >= 1 => f.iters <= Log2(n_probes) + 1

\* C15 on the rows that have an entry: the loop narrows, meets and is short
C15_TerminatesNonEmpty == n_probes >= 1 => C15_Terminates

\* C16: every call of find_chunk_ix reads chunk_indices only at positions i of the
\* row with 0 <= i < n_probes, whatever n_probes >= 0 (the empty probe list
\* included) and the sample index, and ix_min + ix_max never passes 2^32 - 1
\* where the midpoint is taken; no thread is ended by a fault.
C16_ReadsInBounds ==
  \A i \in DOMAIN thr :
    /\ thr[i].pc # "fault"
    /\ thr[i].pc = "done" =>
         LET f == thr[i].found
             st == StepsOf(i)
         IN  /\ \A p \in 1..Len(f.reads) : f.reads[p] >= 0 /\ f.reads[p] < n_probes
             /\ \A j \in 1..f.iters : AddExact(U32(st[j][1]), U32(st[j][2]))[1] < Half

\* C16 on the rows that have an entry
C16_ReadsInBoundsNonEmpty == n_probes >= 1 => C16_ReadsInBounds

\* the chunk that holds sample s of query q: the probed sizes before it sum to at
\* most s, those up to it to more
ChunkHolding(q, s) ==
  CHOOSE c \in 0..(n_probes - 1) :
    Le32(ProbedTotal(q, c), s) /\ Lt32(s, ProbedTotal(q, c + 1))

\* the member of cluster `label` at offset j: db_indices[label][j]
Member(label, j) == <<(label + 1) * 16 + j[1], j[2]>>

\* what the resolver is to store for sample s of query q
Resolved(q, s) ==
  IF Lt32(s, ProbedTotal(q, n_probes))
    THEN LET c == ChunkHolding(q, s)
         IN  Member(clusters_to_probe[n_probes * q + c], Sub32(s, ProbedTotal(q, c)))
    ELSE Max32

\* C7: the slot of every thread that ran holds, when its sample index s is below
\* the query's total sample count, the member identifier of the probed cluster that
\* holds s, at the offset of s inside that cluster; otherwise the maximum value of
\* the identifier type.  With probed sizes 3, 5, 2 and k = 4 sample indices below
\* 10, four threads that ran leave four member identifiers and no sentinel.
C7_Resolve ==
  /\ \A i \in Ran :
       /\ i \in DOMAIN neighbors_out
       /\ neighbors_out[i] = Resolved(QueryOf(i), SampleOf(i))
  /\ (topk = 4 /\ Cardinality(Ran) = 4) =>
       /\ Cardinality({i \in Ran : neighbors_out[i] # kOutOfBoundsRecord}) = 4
       /\ Cardinality({neighbors_out[i] : i \in Ran}) = 4

\* probed sizes 3, 5, 2, four results, all four resolved, from all three clusters
C7_Witness ==
  /\ topk = 4 /\ n_probes = 3 /\ Cardinality(Ran) = 4
  /\ n_samples[0] = U32(10)
  /\ \A i \in Ran : neighbors_out[i] # kOutOfBoundsRecord
  /\ {thr[i].found.ix : i \in Ran} = {0, 1, 2}

\* the launch is over: every thread of it that the model follows ran to its end
LaunchOver == BuilderDone /\ \A i \in DOMAIN thr : thr[i].pc \in {"done", "returned"}

\* C8: when a launch of postprocess_neighbors is over, every output cell (q, r) with
\* q < n_queries and r < topk was written exactly once, by the thread of its own
\* linear index, and the threads at or beyond n_queries * topk wrote nothing.
C8_EveryCellOnce ==
  LaunchOver =>
    /\ \A o \in DOMAIN neighbors_in :
         o \in DOMAIN out_writers /\ out_writers[o] = <<o>>
    /\ DOMAIN out_writers \subseteq DOMAIN neighbors_in
    /\ \A i \in DOMAIN thr : thr[i].pc = "returned" => QueryOf(i) >= n_queries

\* C13: a second run of postprocess_neighbors on the same inputs stores in every
\* slot the identifier the first run stored there (no write of a later launch
\* changes neighbors_out), and no thread of any run changes neighbors_in,
\* clusters_to_probe, chunk_indices or the sizes of the clusters.
C13_Idempotent ==
  [][(\E i \in DOMAIN thr : thr[i].pc = "ready" /\ thr'[i].pc # "ready") =>
        /\ launch >= 2 => neighbors_out' = neighbors_out
        /\ neighbors_in' = neighbors_in
        /\ clusters_to_probe' = clusters_to_probe
        /\ chunk_indices' = chunk_indices
        /\ cluster_sizes' = cluster_sizes]_vars

\* the second launch is over; one of its threads resolved an identifier of a later
\* chunk (find_chunk_ix changed its sample index), another stored the sentinel
C13_Witness ==
  /\ launch = 2
  /\ LaunchOver
  /\ \E i \in Ran : /\ thr[i].found.ix > 0 /\ thr[i].found.ix < n_probes
                     /\ thr[i].found.sample_ix # SampleOf(i)
                     /\ neighbors_out[i] # kOutOfBoundsRecord
  /\ \E i \in Ran : neighbors_out[i] = kOutOfBoundsRecord

(***************************************************************************)
(* postprocess_distances, for ScoreInT = ScoreOutT = float.  A score is a  *)
(* pair <<a, b>> that stands for the real number a * sqrt(b), with b = 1   *)
(* for the integers and b = 0 for NaN; the modelled scores are small       *)
(* enough for the float arithmetic on them to be exact.                    *)
(***************************************************************************)
NaN == <<0, 0>>

\* distance::DistanceType: the five metrics the switch names and three others
DistanceTypes ==
  {"L2Expanded", "L2SqrtExpanded", "CosineExpanded", "L1",
   "L2Unexpanded", "L2SqrtUnexpanded", "InnerProduct", "Linf"}

RawVals == {<<x, 1>> : x \in {-3, 0, 1, 4, 5, 9, 16}}

\* raft::cast_op<ScoreOutT>, float to float
cast_op(x) == x

\* raft::mul_const_op<ScoreOutT>{c}
mul_const_op(c, x) == IF x = NaN THEN NaN ELSE <<c * x[1], x[2]>>

\* raft::sqrt_op of an integer score
sqrt_op(x) ==
  IF x = NaN \/ x[1] < 0 THEN NaN
  ELSE IF \E r \in 0..x[1] : r * r = x[1]
         THEN <<CHOOSE r \in 0..x[1] : r * r = x[1], 1>>
         ELSE <<1, x[1]>>

\* lines 226-227: compose_op(mul_const_op{s * s}, cast_op)
SquaredOp(sf, x) == mul_const_op(sf * sf, cast_op(x))

\* the square root left out
EuclideanOp_NoSqrt(sf, x) == mul_const_op(sf, cast_op(x))

\* lines 235-237: compose_op{mul_const_op{s}, sqrt_op, cast_op}
EuclideanOp(sf, x) == mul_const_op(sf, sqrt_op(cast_op(x)))

\* lines 245-246: compose_op(mul_const_op{-s * s}, cast_op)
InnerProductOp(sf, x) == mul_const_op((-sf) * sf, cast_op(x))

\* linalg::unaryOp(out, in, len, op): out[o] = op(in[o]) for every o < len; op is
\* the functor as a function on the scores
unaryOp(in, len, op) == [o \in 0..(len - 1) |-> op[in[o]]]

\* a default case that copies the scores instead of failing
postprocess_distances_Copy(in, m, nq, k, sf) ==
  LET len == nq * k
      Squared == [x \in RawVals |-> SquaredOp(sf, x)]
      Euclidean == [x \in RawVals |-> EuclideanOp(sf, x)]
      Inner == [x \in RawVals |-> InnerProductOp(sf, x)]
  IN  CASE m \in {"L2Unexpanded", "L2Expanded"} ->
             [status |-> "returned", out |-> unaryOp(in, len, Squared)]
        [] m \in {"L2SqrtUnexpanded", "L2SqrtExpanded"} ->
             [status |-> "returned", out |-> unaryOp(in, len, Euclidean)]
        [] m = "InnerProduct" ->
             [status |-> "returned", out |-> unaryOp(in, len, Inner)]
        [] OTHER -> [status |-> "returned", out |-> unaryOp(in, len, [x \in RawVals |-> cast_op(x)])]

\* postprocess_distances(out, in, metric, n_queries, topk, scaling_factor, stream):
\* how the call ends and what it writes to out
postprocess_distances(in, m, nq, k, sf) ==
  LET len == nq * k
      Squared == [x \in RawVals |-> SquaredOp(sf, x)]
      Euclidean == [x \in RawVals |-> EuclideanOp(sf, x)]
      Inner == [x \in RawVals |-> InnerProductOp(sf, x)]
  IN  CASE m \in {"L2Unexpanded", "L2Expanded"} ->
             [status |-> "returned", out |-> unaryOp(in, len, Squared)]
        [] m \in {"L2SqrtUnexpanded", "L2SqrtExpanded"} ->
             [status |-> "returned", out |-> unaryOp(in, len, Euclidean)]
        [] m = "InnerProduct" ->
             [status |-> "returned", out |-> unaryOp(in, len, Inner)]
        [] OTHER -> [status |-> "failed", out |-> <<>>]   \* RAFT_FAIL("Unexpected metric.")

\* One call of postprocess_distances.
PostprocessDistances ==
  /\ dist_status = "ready"
  /\ \E r \in {postprocess_distances(dist_in, metric, n_queries, topk, scaling_factor)} :
       /\ dist_status' = r.status
       /\ dist_out' = [o \in DOMAIN dist_out \cup DOMAIN r.out |->
                         IF o \in DOMAIN r.out THEN r.out[o] ELSE dist_out[o]]
  /\ UNCHANGED <<ivf_vars, metric, scaling_factor, dist_in, block_vars, lib_vars>>

NoBatch ==
  /\ n_probes = 0
  /\ cluster_sizes = <<>>
  /\ clusters_to_probe = <<>>
  /\ neighbors_in = <<>>
  /\ chunk_indices = <<>>
  /\ n_samples = <<>>
  /\ blk = <<>>
  /\ neighbors_out = <<>>
  /\ out_writers = <<>>
  /\ thr = <<>>
  /\ launch = 0

InitDist ==
  /\ NoBatch
  /\ n_queries \in 1..MaxLen
  /\ topk = 1
  /\ metric \in DistanceTypes
  /\ scaling_factor \in 1..MaxScale
  /\ dist_in \in [0..(n_queries * topk - 1) -> RawVals]
  /\ dist_out = <<>>
  /\ dist_status = "ready"
  /\ NoBlock
  /\ NoUnravel

NextDist == PostprocessDistances

SpecDist == InitDist /\ [][NextDist]_vars

\* C9: when the call has returned, every score is transformed by its metric's rule,
\* with s the scaling factor: for L2Expanded and L2Unexpanded out = in * s^2; for
\* L2SqrtExpanded and L2SqrtUnexpanded out = sqrt(in) * s, the non-negative number
\* whose square is in * s^2 (NaN for a negative score); for InnerProduct
\* out = -(in * s^2).  So 9 at scale 2 gives 36, the root of 16 at scale 1 gives 4,
\* and the inner product 5 at scale 1 gives -5.
C9_Transform ==
  dist_status = "returned" =>
    \A o \in 0..(n_queries * topk - 1) :
      LET x == dist_in[o][1]
          s2 == scaling_factor * scaling_factor
      IN  /\ o \in DOMAIN dist_out
          /\ metric \in {"L2Expanded", "L2Unexpanded"} => dist_out[o] = <<x * s2, 1>>
          /\ metric \in {"L2SqrtExpanded", "L2SqrtUnexpanded"} =>
               IF x < 0 THEN dist_out[o] = NaN
               ELSE /\ dist_out[o][1] >= 0
                    /\ dist_out[o][2] >= 1
                    /\ dist_out[o][1] * dist_out[o][1] * dist_out[o][2] = x * s2
          /\ metric = "InnerProduct" => dist_out[o] = <<0 - x * s2, 1>>
          /\ (metric = "L2Expanded" /\ scaling_factor = 2 /\ x = 9) => dist_out[o] = <<36, 1>>
          /\ (metric = "L2SqrtExpanded" /\ scaling_factor = 1 /\ x = 16) => dist_out[o] = <<4, 1>>
          /\ (metric = "InnerProduct" /\ scaling_factor = 1 /\ x = 5) => dist_out[o] = <<-5, 1>>

\* a Euclidean call at scale 2 on the scores 16 and 5: 8 and 2 * sqrt(5)
C9_Witness ==
  /\ dist_status = "returned"
  /\ metric = "L2SqrtUnexpanded"
  /\ scaling_factor = 2
  /\ n_queries * topk = 2
  /\ dist_in[0] = <<16, 1>> /\ dist_out[0] = <<8, 1>>
  /\ dist_in[1] = <<5, 1>> /\ dist_out[1] = <<2, 5>>

Supported == {"L2Expanded", "L2Unexpanded", "L2SqrtExpanded", "L2SqrtUnexpanded", "InnerProduct"}

\* C10: a call with a metric outside the squared-Euclidean, Euclidean and
\* inner-product families ends failed and writes no element of out; a call with a
\* metric of these families does not fail.
C10_UnexpectedMetric ==
  dist_status # "ready" =>
    /\ metric \notin Supported => dist_status = "failed" /\ dist_out = <<>>
    /\ metric \in Supported => dist_status = "returned"

\* a failed call that had scores to transform
C10_Witness ==
  /\ dist_status = "failed"
  /\ metric = "CosineExpanded"
  /\ n_queries * topk = 2
  /\ dist_out = <<>>

(***************************************************************************)
(* raft::unravel_index and unravel_index_impl of core/mdspan.hpp, for      *)
(* Idx = uint64_t and IndexType = uint64_t.  An unsigned integer of 16 * n *)
(* bits is a sequence of n 16-bit limbs, the least significant first:      *)
(* uint32_t has 2 limbs, uint64_t and std::size_t have 4.  The arithmetic  *)
(* wraps at the width of its operands.                                     *)
(***************************************************************************)
\* the number n < 2^31 in w limbs
Limbs(n, w) ==
  [i \in 1..w |-> IF i = 1 THEN n % Half ELSE IF i = 2 THEN n \div Half ELSE 0] \o <<>>

\* static_cast to the unsigned type of w limbs
CastW(a, w) == [i \in 1..w |-> IF i <= Len(a) THEN a[i] ELSE 0] \o <<>>

RECURSIVE AddFrom(_, _, _, _)
\* the limbs i.. of a + b + carry
AddFrom(a, b, i, carry) ==
  IF i > Len(a) THEN <<>>
  ELSE <<(a[i] + b[i] + carry) % Half>> \o AddFrom(a, b, i + 1, (a[i] + b[i] + carry) \div Half)

AddW(a, b) == AddFrom(a, b, 1, 0)

\* a - b as a + ~b + 1
SubW(a, b) == AddFrom(a, [i \in 1..Len(b) |-> Half - 1 - b[i]] \o <<>>, 1, 1)

LtW(a, b) == \E i \in 1..Len(a) : a[i] < b[i] /\ \A j \in (i + 1)..Len(a) : a[j] = b[j]

IsZeroW(a) == \A i \in 1..Len(a) : a[i] = 0

RECURSIVE Pow2(_)
Pow2(k) == IF k = 0 THEN 1 ELSE 2 * Pow2(k - 1)

\* a >> k for k < 16
ShrBits(a, k) ==
  [i \in 1..Len(a) |->
     (a[i] \div Pow2(k)) + (IF i < Len(a) THEN (a[i + 1] % Pow2(k)) * Pow2(16 - k) ELSE 0)] \o <<>>

RECURSIVE ShrW(_, _)
\* a >> k, for k below the width of a
ShrW(a, k) ==
  IF k < 16 THEN ShrBits(a, k)
  ELSE ShrW(SubSeq(a, 2, Len(a)) \o <<0>>, k - 16)

RECURSIVE And16(_, _)
And16(x, y) == IF x = 0 \/ y = 0 THEN 0 ELSE (x % 2) * (y % 2) + 2 * And16(x \div 2, y \div 2)

\* a & b
AndW(a, b) == [i \in 1..Len(a) |-> And16(a[i], b[i])] \o <<>>

RECURSIVE Popc16(_)
Popc16(x) == IF x = 0 THEN 0 ELSE (x % 2) + Popc16(x \div 2)

RECURSIVE PopcFrom(_, _)
PopcFrom(a, i) == IF i > Len(a) THEN 0 ELSE Popc16(a[i]) + PopcFrom(a, i + 1)

\* detail::popc(a): the number of bits set
popc(a) == PopcFrom(a, 1)

RECURSIVE MulSmallFrom(_, _, _, _)
\* the limbs i.. of a * c + carry, for c <= 256
MulSmallFrom(a, c, i, carry) ==
  IF i > Len(a) THEN <<>>
  ELSE <<(a[i] * c + carry) % Half>> \o MulSmallFrom(a, c, i + 1, (a[i] * c + carry) \div Half)

MulSmall(a, c) == MulSmallFrom(a, c, 1, 0)

\* a times the 16-bit c
MulLimb(a, c) ==
  IF c = 0 THEN CastW(<<>>, Len(a))
  ELSE AddW(MulSmall(a, c % 256), MulSmall(MulSmall(a, c \div 256), 256))

RECURSIVE MulFrom(_, _, _)
\* a times the limbs j.. of b
MulFrom(a, b, j) ==
  IF j > Len(b) THEN CastW(<<>>, Len(a))
  ELSE AddW(MulLimb(a, b[j]), CastW(<<0>> \o MulFrom(a, b, j + 1), Len(a)))

\* a * b
MulW(a, b) == MulFrom(a, b, 1)

\* the digit c with c * d <= r < (c + 1) * d, for r < 16 * d
QuotDigit(r, d) == CHOOSE c \in 0..15 : ~LtW(r, MulSmall(d, c)) /\ LtW(r, MulSmall(d, c + 1))

DivModDigit(q, r, d, c) == [q |-> MulSmallFrom(q, 16, 1, c), r |-> SubW(r, MulSmall(d, c))]

DivModRem(q, r, d) == DivModDigit(q, r, d, QuotDigit(r, d))

\* quotient and remainder of 16 * n + nib by d from those of n by d
DivModNext(h, nib, d) == DivModRem(h.q, MulSmallFrom(h.r, 16, 1, nib), d)

RECURSIVE DivModW(_, _)
\* quotient and remainder of a by d # 0, for a and d with the highest limb clear
DivModW(a, d) ==
  IF IsZeroW(a) THEN [q |-> a, r |-> a]
  ELSE DivModNext(DivModW(ShrBits(a, 4), d), a[1] % 16, d)

\* a / d
DivW(a, d) == CastW(DivModW(CastW(a, Len(a) + 1), CastW(d, Len(a) + 1)).q, Len(a))

\* what a shift by the full width of the operand may leave
ShiftVals == {"zero", "keep"}

\* line 150: s & (s - 1) is zero
IsExpOf2(s) == IsZeroW(AndW(s, SubW(s, Limbs(1, Len(s)))))

\* lines 151-153: index[dim] and the new idx by division
DivisionStep(x, s) ==
  LET t == DivW(x, s)
  IN  [index |-> SubW(x, MulW(t, s)), idx |-> t]

\* lines 155-156: index[dim] and the new idx by mask and shift; a shift by the
\* width of the type is undefined and leaves what g says
MaskStep(x, s, g) ==
  LET m == SubW(s, Limbs(1, Len(s)))
  IN  [index |-> AndW(x, m),
       idx |-> IF popc(m) < 16 * Len(x) THEN ShrW(x, popc(m))
               ELSE IF g = "zero" THEN CastW(<<>>, Len(x)) ELSE x]

\* lines 149-157: one iteration of the loop, on idx = x and the extent s
unravel_step(x, s, g) == IF ~IsExpOf2(s) THEN DivisionStep(x, s) ELSE MaskStep(x, s, g)

RECURSIVE unravel_loop(_, _, _, _, _)
\* the loop of lines 148-158 from dimension dim (counted from 0) down to 1, then
\* line 159; index[d] is at position d + 1
unravel_loop(x, shp, dim, index, g) ==
  IF dim <= 0 THEN [index EXCEPT ![1] = CastW(x, 4)]
  ELSE LET st == unravel_step(x, CastW(shp[dim + 1], Len(x)), g)
       IN  unravel_loop(st.idx, shp, dim - 1, [index EXCEPT ![dim + 1] = CastW(st.index, 4)], g)

\* unravel_index_impl<I>(idx, shape) for the unsigned type I of w limbs
unravel_index_impl(w, x, shp, g) ==
  unravel_loop(CastW(x, w), shp, Len(shp) - 1, [d \in 1..Len(shp) |-> CastW(<<>>, 4)], g)

\* std::numeric_limits<uint32_t>::max() as a uint64_t
MaxU32W == <<Half - 1, Half - 1, 0, 0>>

\* unravel_index(idx, shape, layout_c_contiguous{}) for a 64-bit Idx: lines 281-286
unravel_index(x, shp, g) ==
  IF LtW(MaxU32W, x) THEN unravel_index_impl(4, x, shp, g)
  ELSE unravel_index_impl(2, x, shp, g)

\* One call of unravel_index.
UnravelIndex ==
  /\ unravel_status = "ready"
  /\ \E g \in ShiftVals : coord' = unravel_index(idx, shape, g)
  /\ unravel_status' = "returned"
  /\ UNCHANGED <<ivf_vars, dist_vars, block_vars, shape, idx, rbc_vars>>

\* extents: small ones, powers of two or not, and extents of 2^32 and more
ExtentVals ==
  {Limbs(n, 4) : n \in {1, 2, 3, Half}} \cup {<<0, 0, 1, 0>>, <<3, 0, 1, 0>>}

IdxVals ==
  {Limbs(n, 4) : n \in {0, 5, Half + 1}} \cup {MaxU32W, <<0, 0, 1, 0>>, <<5, 0, 2, 0>>}

Shapes == UNION {[1..r -> ExtentVals] : r \in 1..MaxRank}

RECURSIVE Linearise(_, _, _)
\* the row-major offset of the coordinate c in the shape shp, over dimensions
\* 1..n, exactly (in 12 limbs)
Linearise(c, shp, n) ==
  IF n = 0 THEN CastW(<<>>, 12)
  ELSE AddW(MulW(Linearise(c, shp, n - 1), shp[n]), CastW(c[n], 12))

\* the number of elements of the shape, exactly
Size(shp) == AddW(Linearise([d \in 1..Len(shp) |-> SubW(shp[d], Limbs(1, 4))], shp, Len(shp)),
                  Limbs(1, 12))

InitUnravel ==
  /\ NoBatch
  /\ n_queries = 0
  /\ topk = 0
  /\ NoCall
  /\ NoBlock
  /\ shape \in Shapes
  /\ \E n \in {Size(shape)} : idx \in {x \in IdxVals : LtW(CastW(x, 12), n)}
  /\ coord = <<>>
  /\ unravel_status = "ready"
  /\ NoBallCover

NextUnravel == UnravelIndex

SpecUnravel == InitUnravel /\ [][NextUnravel]_vars

\* the extents the loop reads (those of dimensions 1 and up, at positions 2 and
\* up) all fit 32 bits: what the 32-bit implementation casts them to is what
\* they are
ExtentsFit32 == \A d \in 2..Len(shape) : shape[d][3] = 0 /\ shape[d][4] = 0

\* C18: when unravel_index has returned for a shape of positive extents and an idx
\* below their product, every coordinate is below its extent and the row-major
\* offset of the coordinate is idx; on an extent that is a power of two the mask
\* and shift give what the division gives; and for idx <= 2^32 - 1 the coordinate
\* is the one the 64-bit implementation gives.
C18_Unravel ==
  unravel_status = "returned" =>
    /\ \A d \in 1..Len(shape) : LtW(coord[d], shape[d])
    /\ Linearise(coord, shape, Len(shape)) = CastW(idx, 12)
    /\ \A d \in 2..Len(shape), g \in ShiftVals :
         (IsExpOf2(shape[d]) /\ ~IsZeroW(shape[d])) =>
            MaskStep(idx, shape[d], g) = DivisionStep(idx, shape[d])
    /\ ~LtW(MaxU32W, idx) =>
         \A g \in ShiftVals : coord = unravel_index_impl(4, idx, shape, g)

\* C18 for the shapes whose extents of dimensions 1 and up all are below 2^32
C18_UnravelWhenExtentsFit == ExtentsFit32 => C18_Unravel

(***************************************************************************)
(* The ball cover passes instantiated in ball_cover/registers.cu:          *)
(* rbc_low_dim_pass_one, rbc_low_dim_pass_two and rbc_eps_pass, for one     *)
(* query.  Points lie on a line (the second coordinate of the 2-d          *)
(* instantiation is 0), a point's id is its position in X, and every point *)
(* belongs to the partition of its closest landmark.  The passes follow    *)
(* the design of the two-pass scanner and of the radius scanner.           *)
(***************************************************************************)
Abs(x) == IF x < 0 THEN -x ELSE x

\* dfunc(x, y): the distance of two points
dfunc(x, y) == Abs(x - y)

\* the slack weights of pass one: none (1) and some (2)
Weights == {1, 2}

\* pass two with the slack of pass one
PassTwoWeight_Slack == CHOOSE w \in Weights : w > 1

\* the weight pass two is run with
PassTwoWeight == 1

\* the identifier of a result slot left without a point
NoId == 0

\* the distance of a result slot left without a point
NoDist == MaxCoord + 1

\* the landmark of point i of X among the landmarks R: the closest, the lowest
\* id when two are as close
Owner(X, R, i) ==
  CHOOSE l \in R : \A m \in R :
    \/ dfunc(X[i], X[l]) < dfunc(X[i], X[m])
    \/ dfunc(X[i], X[l]) = dfunc(X[i], X[m]) /\ l <= m

RECURSIVE Ascending(_)
\* the ids of a set, ascending
Ascending(S) ==
  IF S = {} THEN <<>>
  ELSE LET lo == CHOOSE i \in S : \A j \in S : i <= j
       IN  <<lo>> \o Ascending(S \ {lo})

RECURSIVE MaxOf(_)
MaxOf(S) ==
  IF S = {} THEN 0
  ELSE LET a == CHOOSE i \in S : TRUE
           m == MaxOf(S \ {a})
       IN  IF a > m THEN a ELSE m

\* the index over the points X with the landmarks R: each partition's members
\* and its radius, the distance of its farthest member to the landmark
BuildIndex(X, R) ==
  [X |-> X,
   R |-> R,
   members |-> [l \in R |-> Ascending({i \in 1..Len(X) : Owner(X, R, i) = l})],
   radius |-> [l \in R |-> MaxOf({dfunc(X[i], X[l]) : i \in {j \in 1..Len(X) : Owner(X, R, j) = l}})]]

\* the true distance of the query to point i
QueryDist(i) == dfunc(rbc_query.point, rbc_index.X[i])

\* the triangle-inequality lower bound of partition l:
\* |distance(query, landmark) - partition_radius|
LowerBound(l) == Abs(QueryDist(l) - rbc_index.radius[l])

\* the current k-th best distance of the top-k h (ids, ascending by distance)
KthBest(h) == IF Len(h) < rbc_query.k THEN NoDist ELSE QueryDist(h[rbc_query.k])

\* a partition is scanned when its lower bound, relaxed by the weight, is below
\* the current k-th best distance
Admissible(l, weight, h) == Len(h) < rbc_query.k \/ weight * LowerBound(l) < KthBest(h)

\* the top-k h with point i offered: i goes behind the points that are as
\* close (first seen first), and the k closest are kept
Offer(h, i) ==
  LET before == Cardinality({j \in 1..Len(h) : QueryDist(h[j]) <= QueryDist(i)})
      all == SubSeq(h, 1, before) \o <<i>> \o SubSeq(h, before + 1, Len(h))
  IN  SubSeq(all, 1, IF Len(all) < rbc_query.k THEN Len(all) ELSE rbc_query.k)

RECURSIVE ScanMembers(_, _, _)
\* the top-k h after the members ms[j..] of a partition are offered
ScanMembers(h, ms, j) ==
  IF j > Len(ms) THEN h ELSE ScanMembers(Offer(h, ms[j]), ms, j + 1)

\* the scan state st after partition l is examined with the weight
Examine(st, l, weight) ==
  IF l \in st.scanned \/ ~Admissible(l, weight, st.heap) THEN st
  ELSE [heap |-> ScanMembers(st.heap, rbc_index.members[l], 1),
        scanned |-> st.scanned \cup {l},
        dists_counter |-> st.dists_counter + Len(rbc_index.members[l])]

RECURSIVE ExamineAll(_, _, _, _)
\* the scan state after the partitions ls[j..] are examined in order
ExamineAll(st, ls, j, weight) ==
  IF j > Len(ls) THEN st ELSE ExamineAll(Examine(st, ls[j], weight), ls, j + 1, weight)

\* the result slots: the ids of the top-k, then NoId up to k
Inds(h) == [j \in 1..rbc_query.k |-> IF j <= Len(h) THEN h[j] ELSE NoId]

\* the result slots: the distances of the top-k, then NoDist up to k
Dists(h) == [j \in 1..rbc_query.k |-> IF j <= Len(h) THEN QueryDist(h[j]) ELSE NoDist]

\* rbc_low_dim_pass_one: the partitions of the probe list, with the slack weight
PassOne ==
  /\ knn.pc = "ready"
  /\ eps_out.pc = "ready"
  /\ \E st \in {ExamineAll([heap |-> <<>>, scanned |-> {}, dists_counter |-> 0],
                           rbc_query.R_knn_inds, 1, rbc_query.weight)} :
       knn' = [pc |-> "one", heap |-> st.heap, scanned |-> st.scanned, first |-> st.scanned,
               dists_counter |-> st.dists_counter,
               inds |-> Inds(st.heap), dists |-> Dists(st.heap)]
  /\ eps_out' = [pc |-> "idle"]
  /\ UNCHANGED <<ivf_vars, dist_vars, block_vars, unravel_vars, rbc_index, rbc_query>>

\* rbc_low_dim_pass_two: every partition not yet fully scanned, without slack
PassTwo ==
  /\ knn.pc = "one"
  /\ \E st \in {ExamineAll([heap |-> knn.heap, scanned |-> knn.scanned,
                            dists_counter |-> knn.dists_counter],
                           Ascending(rbc_index.R), 1, PassTwoWeight)} :
       knn' = [knn EXCEPT !.pc = "two", !.heap = st.heap, !.scanned = st.scanned,
                          !.dists_counter = st.dists_counter,
                          !.inds = Inds(st.heap), !.dists = Dists(st.heap)]
  /\ UNCHANGED <<ivf_vars, dist_vars, block_vars, unravel_vars, rbc_index, rbc_query, eps_out>>

\* a member at distance eps is left out
IsNeighbor_Strict(i, eps) == QueryDist(i) < eps

\* a member is a neighbor iff its distance is at most eps
IsNeighbor(i, eps) == QueryDist(i) <= eps

RECURSIVE NeighborsOf(_, _, _)
\* the neighbors among the members ms[j..] of a partition, in scan order
NeighborsOf(ms, j, eps) ==
  IF j > Len(ms) THEN <<>>
  ELSE (IF IsNeighbor(ms[j], eps) THEN <<ms[j]>> ELSE <<>>) \o NeighborsOf(ms, j + 1, eps)

RECURSIVE ScanRadius(_, _, _)
\* the neighbors in the partitions ls[j..] of the probe list, in probe order
ScanRadius(ls, j, eps) ==
  IF j > Len(ls) THEN <<>>
  ELSE NeighborsOf(rbc_index.members[ls[j]], 1, eps) \o ScanRadius(ls, j + 1, eps)

\* rbc_eps_pass with bool* adj: the dense adjacency row over the dataset
EpsPassDense ==
  /\ knn.pc = "ready"
  /\ eps_out.pc = "ready"
  /\ \E eps \in 0..MaxEps :
       \E found \in {ScanRadius(rbc_query.R_knn_inds, 1, eps)} :
         eps_out' = [pc |-> "dense", eps |-> eps,
                     adj |-> [i \in 1..Len(rbc_index.X) |-> \E j \in 1..Len(found) : found[j] = i]]
  /\ knn' = [pc |-> "idle"]
  /\ UNCHANGED <<ivf_vars, dist_vars, block_vars, unravel_vars, rbc_index, rbc_query>>

\* rbc_eps_pass with ia, ja and vd: the sparse row and its degree
EpsPassSparse ==
  /\ knn.pc = "ready"
  /\ eps_out.pc = "ready"
  /\ \E eps \in 0..MaxEps :
       \E found \in {ScanRadius(rbc_query.R_knn_inds, 1, eps)} :
         eps_out' = [pc |-> "sparse", eps |-> eps, ia |-> 0, ja |-> found, vd |-> Len(found)]
  /\ knn' = [pc |-> "idle"]
  /\ UNCHANGED <<ivf_vars, dist_vars, block_vars, unravel_vars, rbc_index, rbc_query>>

\* datasets: 1..MaxPoints distinct points, the first at 0, ascending
Datasets ==
  {X \in UNION {[1..n -> 0..MaxCoord] : n \in 1..MaxPoints} :
     X[1] = 0 /\ \A i \in 1..(Len(X) - 1) : X[i] < X[i + 1]}

\* the sequences of distinct landmarks
RECURSIVE ProbeLists(_)
ProbeLists(R) ==
  {<<>>} \cup UNION {{<<l>> \o t : t \in ProbeLists(R \ {l})} : l \in R}

InitBallCover ==
  /\ NoBatch
  /\ n_queries = 0
  /\ topk = 0
  /\ NoCall
  /\ NoBlock
  /\ shape = <<>>
  /\ idx = <<>>
  /\ coord = <<>>
  /\ unravel_status = "idle"
  /\ \E X \in Datasets :
       \E R \in (SUBSET (1..Len(X))) \ {{}} :
         /\ rbc_index = BuildIndex(X, R)
         /\ rbc_query \in [point : 0..MaxCoord, k : 1..MaxK, R_knn_inds : ProbeLists(R),
                           weight : Weights]
  /\ knn = [pc |-> "ready"]
  /\ eps_out = [pc |-> "ready"]

NextBallCover ==
  \/ PassOne
  \/ PassTwo
  \/ EpsPassDense
  \/ EpsPassSparse

SpecBallCover == InitBallCover /\ [][NextBallCover]_vars

\* the ids in the result slots
TopK == {knn.inds[j] : j \in 1..rbc_query.k} \ {NoId}

\* S holds k nearest points of the dataset (all of them when there are fewer
\* than k): no point outside S is closer than a point of S
IsKNearest(S) ==
  /\ S \subseteq 1..Len(rbc_index.X)
  /\ Cardinality(S) = (IF Len(rbc_index.X) < rbc_query.k THEN Len(rbc_index.X) ELSE rbc_query.k)
  /\ \A i \in S : \A j \in (1..Len(rbc_index.X)) \ S : QueryDist(i) <= QueryDist(j)

\* the query lies strictly inside the ball of partition l
StrictlyInside(l) == QueryDist(l) < rbc_index.radius[l]

Emitted ==
  IF eps_out.pc = "dense" THEN {i \in 1..Len(rbc_index.X) : eps_out.adj[i]}
  ELSE {eps_out.ja[j] : j \in 1..Len(eps_out.ja)}

\* the points of the partitions of the probe list
Probed ==
  UNION {{rbc_index.members[rbc_query.R_knn_inds[p]][j] :
            j \in 1..Len(rbc_index.members[rbc_query.R_knn_inds[p]])} :
         p \in 1..Len(rbc_query.R_knn_inds)}

====
